---- MODULE Spec2Model ----
(***************************************************************************)
(* Model of package config of Veraticus/vuls (src/config/config.go):       *)
(* the Config, smtpConf, SlackConf and ServerInfo types, the three         *)
(* Validate methods with checkEmails, and ServerInfo.SetContainer.         *)
(*                                                                         *)
(* Go strings are TLA+ strings; an error is its message, built as the      *)
(* code's fmt.Errorf builds it.  The govalidator predicates the code calls *)
(* (IsFilePath, IsEmail, IsURL, IsPort, ValidateStruct) are library code;  *)
(* they are modelled here by their documented behaviour, character by      *)
(* character, at the place config.go calls them.                           *)
(***************************************************************************)
EXTENDS Integers, Sequences, FiniteSets, TLC

VARIABLES
    conf,      \* the package variable Conf (config.go:29)
    conf0,     \* history: Conf as the loader left it
    op,        \* history: the method called last ("" before any call)
    calls,     \* history: number of method calls made so far
    ret,       \* the []error of the last validator call, as messages
    ok,        \* the bool the last Config.Validate returned
    log,       \* what log.Error has received so far (config.go:96-98)
    args       \* history: the arguments of the SetContainer calls, in order

vars == <<conf, conf0, op, calls, ret, ok, log, args>>

(***************************************************************************)
(* Bounds of the model.                                                    *)
(***************************************************************************)
MaxTo == 2            \* longest To list
MaxCc == 1            \* longest Cc list
MaxCalls == 2         \* method calls in one behaviour
MaxDeviations == 2    \* values in which a Settings value differs from a seed

(***************************************************************************)
(* Strings.                                                                *)
(***************************************************************************)
CharAt(s, i) == SubSeq(s, i, i)

\* strings.HasPrefix
HasPrefix(s, prefix) ==
    /\ Len(s) >= Len(prefix)
    /\ SubSeq(s, 1, Len(prefix)) = prefix

RECURSIVE IndexFrom(_, _, _)
\* position of the first occurrence of sub in s at or after i, 0 when none
IndexFrom(s, sub, i) ==
    IF i + Len(sub) - 1 > Len(s) THEN 0
    ELSE IF SubSeq(s, i, i + Len(sub) - 1) = sub THEN i
    ELSE IndexFrom(s, sub, i + 1)

\* strings.Index, counted from 1 (0 when sub does not occur)
IndexOf(s, sub) == IndexFrom(s, sub, 1)

\* strings.Contains
Contains(s, sub) == IndexOf(s, sub) > 0

DigitChars == "0123456789"
LetterChars == "abcdefghijklmnopqrstuvwxyzABCDEFGHIJKLMNOPQRSTUVWXYZ"

IsDigit(ch) == Len(ch) = 1 /\ Contains(DigitChars, ch)
IsLetter(ch) == Len(ch) = 1 /\ Contains(LetterChars, ch)
IsSpace(ch) == ch = " "

AllDigits(s) == Len(s) > 0 /\ \A i \in 1..Len(s) : IsDigit(CharAt(s, i))
NoSpace(s) == \A i \in 1..Len(s) : ~IsSpace(CharAt(s, i))

RECURSIVE Atoi(_)
\* strconv.Atoi on a string of decimal digits
Atoi(s) ==
    IF Len(s) = 0 THEN 0
    ELSE 10 * Atoi(SubSeq(s, 1, Len(s) - 1)) + (IndexOf(DigitChars, CharAt(s, Len(s))) - 1)

(***************************************************************************)
(* govalidator predicates, as config.go uses them.                         *)
(***************************************************************************)
\* valid.IsFilePath: a Unix path from the root, or a Windows drive path
IsFilePath(s) ==
    \/ /\ HasPrefix(s, "/")
       /\ ~Contains(s, "//")
    \/ /\ Len(s) >= 3
       /\ IsLetter(CharAt(s, 1))
       /\ SubSeq(s, 2, 3) = ":\\"

\* valid.IsEmail: local@domain, no blanks, one '@', a dotted domain
IsEmail(s) ==
    LET at == IndexOf(s, "@")
        local == SubSeq(s, 1, at - 1)
        domain == SubSeq(s, at + 1, Len(s))
    IN  /\ at > 1
        /\ NoSpace(s)
        /\ ~Contains(domain, "@")
        /\ Contains(domain, ".")
        /\ ~HasPrefix(domain, ".")
        /\ CharAt(domain, Len(domain)) # "."

\* valid.IsURL: optional scheme, then a host that is dotted or localhost
IsURL(s) ==
    LET sep == IndexOf(s, "://")
        rest == IF sep > 0 THEN SubSeq(s, sep + 3, Len(s)) ELSE s
    IN  /\ Len(s) > 3
        /\ ~HasPrefix(s, ".")
        /\ NoSpace(s)
        /\ sep # 1
        /\ Len(rest) > 0
        /\ ~HasPrefix(rest, ".")
        /\ (Contains(rest, ".") \/ HasPrefix(rest, "localhost"))

\* valid.IsPort: strconv.Atoi succeeds and 0 < i < 65536
IsPort(s) ==
    /\ AllDigits(s)
    /\ Atoi(s) > 0
    /\ Atoi(s) < 65536

\* govalidator's TagMap for the two tags config.go uses
TagCheck(tag, value) ==
    CASE tag = "url" -> IsURL(value)
      [] tag = "port" -> IsPort(value)
      [] OTHER -> TRUE

\* typeCheck of one tagged string field: an empty value is not validated
FieldOk(f) == f.value = "" \/ TagCheck(f.tag, f.value)

\* Error.Error() of one failed field
FieldError(f) == f.name \o ": " \o f.value \o " does not validate as " \o f.tag

RECURSIVE JoinErrors(_)
\* Errors.Error(): every field error followed by ';'
JoinErrors(fs) ==
    IF fs = <<>> THEN ""
    ELSE FieldError(Head(fs)) \o ";" \o JoinErrors(Tail(fs))

\* valid.ValidateStruct over the tagged fields of one struct, in declaration
\* order: no error, or one error aggregating every failed field
ValidateStruct(fields) ==
    LET failed == SelectSeq(fields, LAMBDA f : ~FieldOk(f))
    IN  IF failed = <<>> THEN <<>> ELSE <<JoinErrors(failed)>>

(***************************************************************************)
(* The types of config.go, as records; zero values as Go gives them.       *)
(***************************************************************************)
ZeroContainer == [ContainerID |-> "", Name |-> "", Type |-> ""]

ZeroServerInfo ==
    [ServerName |-> "", User |-> "", Host |-> "", Port |-> "", KeyPath |-> "",
     KeyPassword |-> "", CpeNames |-> <<>>, Containers |-> <<>>, Optional |-> <<>>,
     LogMsgAnsiColor |-> "", Container |-> ZeroContainer, Family |-> ""]

ZeroSmtpConf ==
    [SMTPAddr |-> "", SMTPPort |-> "", User |-> "", Password |-> "", From |-> "",
     To |-> <<>>, Cc |-> <<>>, SubjectPrefix |-> "", UseThisTime |-> FALSE]

ZeroSlackConf ==
    [HookURL |-> "", Channel |-> "", IconEmoji |-> "", AuthUser |-> "",
     NotifyUsers |-> <<>>, Text |-> "", UseThisTime |-> FALSE]

ZeroConfig ==
    [Debug |-> FALSE, DebugSQL |-> FALSE, Lang |-> "",
     Mail |-> ZeroSmtpConf, Slack |-> ZeroSlackConf,
     Default |-> ZeroServerInfo, Servers |-> <<>>,
     CveDictionaryURL |-> "", CvssScoreOver |-> 0, IgnoreUnscoredCves |-> FALSE,
     SSHExternal |-> FALSE, HTTPProxy |-> "", JSONBaseDir |-> "", CveDBPath |-> "",
     AwsProfile |-> "", AwsRegion |-> "", S3Bucket |-> "",
     AzureAccount |-> "", AzureKey |-> "", AzureContainer |-> ""]

\* faulty variant: the structural check also descends into the nested blocks
ConfigTagsNested(c) ==
    << [name |-> "SMTPPort", value |-> c.Mail.SMTPPort, tag |-> "port"],
       [name |-> "HookURL", value |-> c.Slack.HookURL, tag |-> "url"],
       [name |-> "CveDictionaryURL", value |-> c.CveDictionaryURL, tag |-> "url"],
       [name |-> "HTTPProxy", value |-> c.HTTPProxy, tag |-> "url"] >>

\* the `valid:"..."` tags of each struct, in declaration order
ConfigTags(c) ==
    << [name |-> "CveDictionaryURL", value |-> c.CveDictionaryURL, tag |-> "url"],
       [name |-> "HTTPProxy", value |-> c.HTTPProxy, tag |-> "url"] >>

smtpConfTags(c) ==
    << [name |-> "SMTPPort", value |-> c.SMTPPort, tag |-> "port"] >>

SlackConfTags(c) ==
    << [name |-> "HookURL", value |-> c.HookURL, tag |-> "url"] >>

(***************************************************************************)
(* checkEmails and smtpConf.Validate.                                      *)
(***************************************************************************)
RECURSIVE checkEmailsSkipEmpty(_)
checkEmailsSkipEmpty(emails) ==
    IF emails = <<>> THEN <<>>
    ELSE LET addr == Head(emails)
         IN  IF Len(addr) = 0 THEN checkEmailsSkipEmpty(Tail(emails))
             ELSE IF ~IsEmail(addr)
                  THEN <<"Invalid email address. email: " \o addr>>
                           \o checkEmailsSkipEmpty(Tail(emails))
                  ELSE checkEmailsSkipEmpty(Tail(emails))

RECURSIVE checkEmails(_)
\* the loop of config.go:119-126, one iteration per unfolding
checkEmails(emails) ==
    IF emails = <<>> THEN <<>>
    ELSE LET addr == Head(emails)
         IN  IF Len(addr) = 0 THEN <<>>
             ELSE IF ~IsEmail(addr)
                  THEN <<"Invalid email address. email: " \o addr>>
                           \o checkEmails(Tail(emails))
                  ELSE checkEmails(Tail(emails))

\* config.go:138-141
Emails(c) == <<c.From>> \o c.To \o c.Cc

\* `if cond { errs = append(errs, fmt.Errorf(msg)) }`: what one such
\* statement appends
ErrorIf(cond, msg) == IF cond THEN <<msg>> ELSE <<>>

\* the statements of config.go:137-164, for an enabled block, in order
smtpConfChecks(c) ==
    checkEmails(Emails(c))
    \o ErrorIf(Len(c.SMTPAddr) = 0, "smtpAddr must not be empty")
    \o ErrorIf(Len(c.SMTPPort) = 0, "smtpPort must not be empty")
    \o ErrorIf(Len(c.To) = 0, "To required at least one address")
    \o ErrorIf(Len(c.From) = 0, "From required at least one address")
    \o ValidateStruct(smtpConfTags(c))

\* faulty variant: no gate on UseThisTime
smtpConfValidateNoGate(c) == [errs |-> smtpConfChecks(c), self |-> c]

\* faulty variant: the required-field checks chained with else-if
smtpConfValidateElseIf(c) ==
    IF ~c.UseThisTime THEN [errs |-> <<>>, self |-> c]
    ELSE [errs |-> checkEmails(Emails(c))
                   \o (IF Len(c.SMTPAddr) = 0 THEN <<"smtpAddr must not be empty">>
                       ELSE IF Len(c.SMTPPort) = 0 THEN <<"smtpPort must not be empty">>
                       ELSE IF Len(c.To) = 0 THEN <<"To required at least one address">>
                       ELSE IF Len(c.From) = 0 THEN <<"From required at least one address">>
                       ELSE <<>>)
                   \o ValidateStruct(smtpConfTags(c)),
          self |-> c]

\* faulty variant: the combined list is built in To's backing array
\* (emails := append(c.To[:0], c.From)), which overwrites To[0]
smtpConfValidateInPlace(c) ==
    IF ~c.UseThisTime THEN [errs |-> <<>>, self |-> c]
    ELSE [errs |-> smtpConfChecks(c),
          self |-> IF Len(c.To) = 0 THEN c
                   ELSE [c EXCEPT !.To = <<c.From>> \o Tail(c.To)]]

\* smtpConf.Validate (pointer receiver): the returned errors and the
\* receiver as the call leaves it; the body assigns nothing through c
smtpConfValidate(c) ==
    IF ~c.UseThisTime THEN [errs |-> <<>>, self |-> c]
    ELSE [errs |-> smtpConfChecks(c), self |-> c]

(***************************************************************************)
(* SlackConf.Validate.                                                     *)
(***************************************************************************)
\* config.go:191-199
ChannelErrs(channel) ==
    IF Len(channel) = 0 THEN <<"channel must not be empty">>
    ELSE IF ~(HasPrefix(channel, "#") \/ channel = "${servername}")
         THEN <<"channel's prefix must be '#', channel: " \o channel>>
         ELSE <<>>

\* the statements of config.go:187-208, for an enabled block, in order
SlackConfChecks(c) ==
    ErrorIf(Len(c.HookURL) = 0, "hookURL must not be empty")
    \o ChannelErrs(c.Channel)
    \o ErrorIf(Len(c.AuthUser) = 0, "authUser must not be empty")
    \o ValidateStruct(SlackConfTags(c))

\* faulty variant: no exemption for the ${servername} placeholder
SlackConfValidateNoPlaceholder(c) ==
    IF ~c.UseThisTime THEN [errs |-> <<>>, self |-> c]
    ELSE [errs |-> ErrorIf(Len(c.HookURL) = 0, "hookURL must not be empty")
                   \o (IF c.Channel = "${servername}"
                       THEN <<"channel's prefix must be '#', channel: " \o c.Channel>>
                       ELSE ChannelErrs(c.Channel))
                   \o ErrorIf(Len(c.AuthUser) = 0, "authUser must not be empty")
                   \o ValidateStruct(SlackConfTags(c)),
          self |-> c]

\* faulty variant: no gate on UseThisTime
SlackConfValidateNoGate(c) == [errs |-> SlackConfChecks(c), self |-> c]

\* SlackConf.Validate (pointer receiver): errors and receiver afterwards
SlackConfValidate(c) ==
    IF ~c.UseThisTime THEN [errs |-> <<>>, self |-> c]
    ELSE [errs |-> SlackConfChecks(c), self |-> c]

(***************************************************************************)
(* Config.Validate.                                                        *)
(***************************************************************************)
\* The value receiver is a copy of Conf: what the nested validators do to
\* the copy's scalar fields is lost, but the copy's To and Cc share their
\* elements with Conf's.
SharedSlice(orig, after) ==
    [i \in 1..Len(orig) |-> IF i <= Len(after) THEN after[i] ELSE orig[i]]

\* config.go:69-74
JSONBaseDirErrs(c) ==
    ErrorIf(Len(c.JSONBaseDir) # 0 /\ ~IsFilePath(c.JSONBaseDir),
            "JSON base directory must be a *Absolute* file path. jsonBaseDir: "
                \o c.JSONBaseDir)

\* config.go:76-81
CveDBPathErrs(c) ==
    ErrorIf(Len(c.CveDBPath) # 0 /\ ~IsFilePath(c.CveDBPath),
            "SQLite3 DB(Cve Dictionary) path must be a *Absolute* file path. dbpath: "
                \o c.CveDBPath)

\* the error list config.go:69-94 builds on `start`, statement by statement
ConfigErrs(c, start) ==
    start
    \o JSONBaseDirErrs(c)
    \o CveDBPathErrs(c)
    \o ValidateStruct(ConfigTags(c))
    \o smtpConfValidate(c.Mail).errs
    \o SlackConfValidate(c.Slack).errs

\* Conf after a call on a copy of it whose Mail the nested validator left
\* as `mail`
ShareSlices(c, mail) ==
    [c EXCEPT !.Mail.To = SharedSlice(c.Mail.To, mail.To),
              !.Mail.Cc = SharedSlice(c.Mail.Cc, mail.Cc)]

\* what Conf is after a call on a copy of it
ConfigAfter(c) == ShareSlices(c, smtpConfValidate(c.Mail).self)

\* what a call that collected errs hands back: the bool of config.go:100,
\* the errors, the logger's input after config.go:96-98, and Conf
ConfigReturn(errs, logged, self) ==
    [ok |-> Len(errs) = 0, errs |-> errs, logged |-> logged \o errs, self |-> self]

\* faulty variant: returns at the first error found
FirstOf(errs) == IF errs = <<>> THEN <<>> ELSE <<Head(errs)>>

ConfigValidateStopAtFirst(c, logged) ==
    ConfigReturn(FirstOf(ConfigErrs(c, <<>>)), logged, ConfigAfter(c))

\* faulty variant: errs is not a fresh slice but what earlier calls left
ConfigValidateAccumulating(c, logged) ==
    ConfigReturn(ConfigErrs(c, logged), <<>>, ConfigAfter(c))

\* Config.Validate: the returned bool, the errors collected from a fresh
\* slice, the logger's input after the call, and Conf after the call
ConfigValidate(c, logged) ==
    ConfigReturn(ConfigErrs(c, <<>>), logged, ConfigAfter(c))

(***************************************************************************)
(* ServerInfo.                                                             *)
(***************************************************************************)
IsContainer(s) == 0 < Len(s.Container.ContainerID)

IsLocal(s) == s.Host = "localhost" \/ s.Host = "127.0.0.1"

\* faulty variant: an empty container id is rejected and the old association kept
SetContainerIfIdentified(s, d) ==
    IF Len(d.ContainerID) = 0 THEN s ELSE [s EXCEPT !.Container = d]

SetContainer(s, d) == [s EXCEPT !.Container = d]

(***************************************************************************)
(* The values the loader may have put into Conf.                           *)
(***************************************************************************)
SeqsUpTo(S, n) == UNION {[1..k -> S] : k \in 0..n}

Paths == {"", "/opt/vuls/results", "relative/path"}
URLs == {"", "http://cve.example.com:1323", "not a url"}
SMTPAddrs == {"", "smtp.example.com"}
SMTPPorts == {"", "25", "abc", "70000"}
Froms == {"", "a@b.com", "bad"}
Addrs == {"", "c@d.com", "bad"}
HookURLs == {"", "https://hooks.example.com/T0/B0", "not a url"}
Channels == {"", "general", "#general", "${servername}"}
AuthUsers == {"", "vuls"}
Hosts == {"", "localhost", "127.0.0.1", "192.168.0.10"}
ServerNames == {"", "web01"}
Containers ==
    [ContainerID : {"", "f3a9"}, Name : {"", "nginx"}, Type : {"", "docker"}]

smtpConfs ==
    {[ZeroSmtpConf EXCEPT !.UseThisTime = u, !.SMTPAddr = a, !.SMTPPort = p,
                          !.From = f, !.To = t, !.Cc = cc] :
        u \in BOOLEAN, a \in SMTPAddrs, p \in SMTPPorts, f \in Froms,
        t \in SeqsUpTo(Addrs, MaxTo), cc \in SeqsUpTo(Addrs, MaxCc)}

SlackConfs ==
    {[ZeroSlackConf EXCEPT !.UseThisTime = u, !.HookURL = h, !.Channel = ch,
                           !.AuthUser = a] :
        u \in BOOLEAN, h \in HookURLs, ch \in Channels, a \in AuthUsers}

ServerInfos ==
    {[ZeroServerInfo EXCEPT !.Host = h, !.ServerName = n] :
        h \in Hosts, n \in ServerNames}

\* a Settings value in which every validated field is set and well-formed
ValidConfig ==
    [ZeroConfig EXCEPT
        !.JSONBaseDir = "/opt/vuls/results",
        !.CveDBPath = "/opt/vuls/results",
        !.CveDictionaryURL = "http://cve.example.com:1323",
        !.HTTPProxy = "http://cve.example.com:1323",
        !.Mail = [ZeroSmtpConf EXCEPT !.UseThisTime = TRUE,
                      !.SMTPAddr = "smtp.example.com", !.SMTPPort = "25",
                      !.From = "a@b.com", !.To = <<"c@d.com">>],
        !.Slack = [ZeroSlackConf EXCEPT !.UseThisTime = TRUE,
                      !.HookURL = "https://hooks.example.com/T0/B0",
                      !.Channel = "#general", !.AuthUser = "vuls"]]

\* the address lists one edit away from l: an address appended, replaced or
\* dropped
ListEdits(l, n) ==
    {Append(l, a) : a \in (IF Len(l) < n THEN Addrs ELSE {})}
    \cup {[l EXCEPT ![i] = a] : i \in 1..Len(l), a \in Addrs}
    \cup (IF l = <<>> THEN {} ELSE {SubSeq(l, 1, Len(l) - 1)})

\* the Settings values that differ from c in one validated value
Deviate1(c) ==
    {[c EXCEPT !.JSONBaseDir = v] : v \in Paths}
    \cup {[c EXCEPT !.CveDBPath = v] : v \in Paths}
    \cup {[c EXCEPT !.CveDictionaryURL = v] : v \in URLs}
    \cup {[c EXCEPT !.HTTPProxy = v] : v \in URLs}
    \cup {[c EXCEPT !.Mail.UseThisTime = v] : v \in BOOLEAN}
    \cup {[c EXCEPT !.Mail.SMTPAddr = v] : v \in SMTPAddrs}
    \cup {[c EXCEPT !.Mail.SMTPPort = v] : v \in SMTPPorts}
    \cup {[c EXCEPT !.Mail.From = v] : v \in Froms}
    \cup {[c EXCEPT !.Mail.To = v] : v \in ListEdits(c.Mail.To, MaxTo)}
    \cup {[c EXCEPT !.Mail.Cc = v] : v \in ListEdits(c.Mail.Cc, MaxCc)}
    \cup {[c EXCEPT !.Slack.UseThisTime = v] : v \in BOOLEAN}
    \cup {[c EXCEPT !.Slack.HookURL = v] : v \in HookURLs}
    \cup {[c EXCEPT !.Slack.Channel = v] : v \in Channels}
    \cup {[c EXCEPT !.Slack.AuthUser = v] : v \in AuthUsers}

RECURSIVE Deviate(_, _)
Deviate(S, k) ==
    IF k = 0 THEN S
    ELSE LET B == Deviate(S, k - 1) IN B \cup UNION {Deviate1(c) : c \in B}

\* the zero Config and the well-formed one, changed in up to MaxDeviations values
Settings == Deviate({ZeroConfig, ValidConfig}, MaxDeviations)

(***************************************************************************)
(* Initial states.                                                         *)
(***************************************************************************)
InitWith(S) ==
    /\ conf \in S
    /\ conf0 = conf
    /\ op = ""
    /\ calls = 0
    /\ ret = <<>>
    /\ ok = FALSE
    /\ log = <<>>
    /\ args = <<>>

Init == InitWith(Settings)

InitBlocks ==
    InitWith({[ZeroConfig EXCEPT !.Mail = m] : m \in smtpConfs}
             \cup {[ZeroConfig EXCEPT !.Slack = s] : s \in SlackConfs})

InitServer == InitWith({[ZeroConfig EXCEPT !.Default = s] : s \in ServerInfos})

(***************************************************************************)
(* Operations.                                                             *)
(***************************************************************************)
\* Conf.Validate()
Validate ==
    /\ calls < MaxCalls
    /\ LET r == ConfigValidate(conf, log)
       IN  /\ conf' = r.self
           /\ ret' = r.errs
           /\ ok' = r.ok
           /\ log' = r.logged
    /\ op' = "Config.Validate"
    /\ calls' = calls + 1
    /\ UNCHANGED <<conf0, args>>

\* Conf.Mail.Validate()
MailValidate ==
    /\ calls < MaxCalls
    /\ LET r == smtpConfValidate(conf.Mail)
       IN  /\ conf' = [conf EXCEPT !.Mail = r.self]
           /\ ret' = r.errs
    /\ op' = "smtpConf.Validate"
    /\ calls' = calls + 1
    /\ UNCHANGED <<conf0, ok, log, args>>

\* Conf.Slack.Validate()
SlackValidate ==
    /\ calls < MaxCalls
    /\ LET r == SlackConfValidate(conf.Slack)
       IN  /\ conf' = [conf EXCEPT !.Slack = r.self]
           /\ ret' = r.errs
    /\ op' = "SlackConf.Validate"
    /\ calls' = calls + 1
    /\ UNCHANGED <<conf0, ok, log, args>>

\* Conf.Default.SetContainer(d)
AttachContainer ==
    /\ calls < MaxCalls
    /\ \E d \in Containers :
          /\ conf' = [conf EXCEPT !.Default = SetContainer(conf.Default, d)]
          /\ args' = Append(args, d)
    /\ op' = "ServerInfo.SetContainer"
    /\ calls' = calls + 1
    /\ UNCHANGED <<conf0, ret, ok, log>>

Next == Validate \/ MailValidate \/ SlackValidate

NextBlocks == MailValidate \/ SlackValidate

NextServer == AttachContainer

\* the three validators on a loaded Conf
Spec == Init /\ [][Next]_vars

\* the nested validators on every mail block and every chat block
SpecBlocks == InitBlocks /\ [][NextBlocks]_vars

\* container attachment on a server profile
SpecServer == InitServer /\ [][NextServer]_vars

(***************************************************************************)
(* Properties.  The input of a call is conf0: no operation of Spec or      *)
(* SpecBlocks is a loader.                                                 *)
(***************************************************************************)
Occurrences(seq, msg) == Len(SelectSeq(seq, LAMBDA m : m = msg))

EmptyOrPath(v) == v = "" \/ IsFilePath(v)

EmptyOrURL(v) == v = "" \/ IsURL(v)

ChannelOk(ch) == HasPrefix(ch, "#") \/ ch = "${servername}"

BadAddrs(l) == SelectSeq(l, LAMBDA a : a # "" /\ ~IsEmail(a))

HasEmptyEntry(l) == \E i \in 1..Len(l) : l[i] = ""

\* every field of c is in its valid format
EveryFieldValid(c) ==
    /\ EmptyOrPath(c.JSONBaseDir)
    /\ EmptyOrPath(c.CveDBPath)
    /\ EmptyOrURL(c.CveDictionaryURL)
    /\ EmptyOrURL(c.HTTPProxy)
    /\ c.Mail.UseThisTime =>
          /\ c.Mail.SMTPAddr # ""
          /\ IsPort(c.Mail.SMTPPort)
          /\ IsEmail(c.Mail.From)
          /\ c.Mail.To # <<>>
          /\ \A i \in 1..Len(c.Mail.To) : IsEmail(c.Mail.To[i])
          /\ \A i \in 1..Len(c.Mail.Cc) : IsEmail(c.Mail.Cc[i])
    /\ c.Slack.UseThisTime =>
          /\ IsURL(c.Slack.HookURL)
          /\ ChannelOk(c.Slack.Channel)
          /\ c.Slack.AuthUser # ""

\* the right-hand side of C1
AllChecksPass(c) ==
    /\ EmptyOrPath(c.JSONBaseDir)
    /\ EmptyOrPath(c.CveDBPath)
    /\ EmptyOrURL(c.CveDictionaryURL)
    /\ EmptyOrURL(c.HTTPProxy)
    /\ (~c.Mail.UseThisTime \/ smtpConfValidate(c.Mail).errs = <<>>)
    /\ (~c.Slack.UseThisTime \/ SlackConfValidate(c.Slack).errs = <<>>)

\* C1: Config.Validate returns true iff both paths are empty or absolute,
\* both URLs are empty or well-formed, and each nested block is disabled or
\* its validator reports nothing; true goes with zero errors; a Settings
\* value with every field in valid format yields true.
C1_ValidIffAllChecksPass ==
    op = "Config.Validate" =>
        /\ ok <=> AllChecksPass(conf0)
        /\ ok <=> ret = <<>>
        /\ EveryFieldValid(conf0) => ok /\ ret = <<>>

\* a disabled mail block with a malformed port, and Validate returned true
C1_Witness ==
    /\ op = "Config.Validate"
    /\ ~conf0.Mail.UseThisTime
    /\ conf0.Mail.SMTPPort = "abc"
    /\ ok

PathViolated(v) == v # "" /\ ~IsFilePath(v)

URLsViolated(c) ==
    \/ c.CveDictionaryURL # "" /\ ~IsURL(c.CveDictionaryURL)
    \/ c.HTTPProxy # "" /\ ~IsURL(c.HTTPProxy)

ViolatedChecks(c) ==
    (IF PathViolated(c.JSONBaseDir) THEN {"JSONBaseDir"} ELSE {})
    \cup (IF PathViolated(c.CveDBPath) THEN {"CveDBPath"} ELSE {})
    \cup (IF URLsViolated(c) THEN {"struct"} ELSE {})

ExpectedErrs(c) ==
    (IF PathViolated(c.JSONBaseDir)
     THEN <<"JSON base directory must be a *Absolute* file path. jsonBaseDir: "
                \o c.JSONBaseDir>>
     ELSE <<>>)
    \o (IF PathViolated(c.CveDBPath)
        THEN <<"SQLite3 DB(Cve Dictionary) path must be a *Absolute* file path. dbpath: "
                   \o c.CveDBPath>>
        ELSE <<>>)
    \o (IF URLsViolated(c) THEN ValidateStruct(ConfigTags(c)) ELSE <<>>)
    \o smtpConfValidate(c.Mail).errs
    \o SlackConfValidate(c.Slack).errs

\* C2: Config.Validate evaluates all five checks whatever the earlier ones
\* found: the collected errors are the errors of the JSONBaseDir check, the
\* CveDBPath check, the structural check, the mail validator and the chat
\* validator, concatenated in that order, one per violated check of the
\* first three, and every one of them reaches the logger.
C2_AllChecksInOrder ==
    op = "Config.Validate" =>
        /\ ret = ExpectedErrs(conf0)
        /\ Len(ret) = Cardinality(ViolatedChecks(conf0))
                        + Len(smtpConfValidate(conf0.Mail).errs)
                        + Len(SlackConfValidate(conf0.Slack).errs)
        /\ Len(log) >= Len(ret)
        /\ SubSeq(log, Len(log) - Len(ret) + 1, Len(log)) = ret

\* two independent violations, the first check and the last, in one call
C2_Witness ==
    /\ op = "Config.Validate"
    /\ conf0.JSONBaseDir = "relative/path"
    /\ conf0.Slack.UseThisTime
    /\ conf0.Slack.Channel = "general"
    /\ Len(ret) = 2

\* the validated fields of c that are malformed: a non-empty value failing
\* its format, or a required value that is missing
MalformedFields(c) ==
    (IF PathViolated(c.JSONBaseDir) THEN {"JSONBaseDir"} ELSE {})
    \cup (IF PathViolated(c.CveDBPath) THEN {"CveDBPath"} ELSE {})
    \cup (IF c.CveDictionaryURL # "" /\ ~IsURL(c.CveDictionaryURL)
          THEN {"CveDictionaryURL"} ELSE {})
    \cup (IF c.HTTPProxy # "" /\ ~IsURL(c.HTTPProxy) THEN {"HTTPProxy"} ELSE {})
    \cup (IF c.Mail.UseThisTime
          THEN (IF c.Mail.SMTPAddr = "" THEN {"SMTPAddr"} ELSE {})
               \cup (IF ~IsPort(c.Mail.SMTPPort) THEN {"SMTPPort"} ELSE {})
               \cup (IF ~IsEmail(c.Mail.From) THEN {"From"} ELSE {})
               \cup (IF c.Mail.To = <<>> \/ BadAddrs(c.Mail.To) # <<>>
                     THEN {"To"} ELSE {})
               \cup (IF BadAddrs(c.Mail.Cc) # <<>> THEN {"Cc"} ELSE {})
          ELSE {})
    \cup (IF c.Slack.UseThisTime
          THEN (IF ~IsURL(c.Slack.HookURL) THEN {"HookURL"} ELSE {})
               \cup (IF ~ChannelOk(c.Slack.Channel) THEN {"Channel"} ELSE {})
               \cup (IF c.Slack.AuthUser = "" THEN {"AuthUser"} ELSE {})
          ELSE {})

\* the names under which the messages refer to a field
Labels(f) ==
    CASE f = "JSONBaseDir" -> {"jsonBaseDir"}
      [] f = "CveDBPath" -> {"dbpath"}
      [] f = "SMTPAddr" -> {"smtpAddr"}
      [] f = "SMTPPort" -> {"smtpPort", "SMTPPort"}
      [] f = "To" -> {"To required"}
      [] f = "From" -> {"From required"}
      [] f = "HookURL" -> {"hookURL", "HookURL"}
      [] f = "Channel" -> {"channel"}
      [] f = "AuthUser" -> {"authUser"}
      [] OTHER -> {f}

AddrsOf(c, f) ==
    CASE f = "From" -> <<c.Mail.From>>
      [] f = "To" -> c.Mail.To
      [] f = "Cc" -> c.Mail.Cc
      [] OTHER -> <<>>

\* msg names field f of c: by the field's name or, for an address field, by
\* the offending address
Names(msg, f, c) ==
    \/ \E l \in Labels(f) : Contains(msg, l)
    \/ \E i \in 1..Len(BadAddrs(AddrsOf(c, f))) :
          msg = "Invalid email address. email: " \o BadAddrs(AddrsOf(c, f))[i]

\* the malformed values field f of c holds
MalformedValues(c, f) ==
    IF f \in {"To", "Cc"} /\ AddrsOf(c, f) # <<>>
    THEN Len(BadAddrs(AddrsOf(c, f)))
    ELSE 1

\* exactly one field of c is malformed and every other one is valid
OneMalformedField(c) ==
    /\ Cardinality(MalformedFields(c)) = 1
    /\ c.Mail.UseThisTime => ~HasEmptyEntry(c.Mail.To) /\ ~HasEmptyEntry(c.Mail.Cc)

TheMalformedField(c) == CHOOSE f \in MalformedFields(c) : TRUE

\* C3 as stated: exactly one malformed field gives false and exactly one
\* error, which names that field.
C3_OneFieldOneError ==
    (op = "Config.Validate" /\ OneMalformedField(conf0)) =>
        /\ ~ok
        /\ Len(ret) = 1
        /\ Names(ret[1], TheMalformedField(conf0), conf0)

\* C3 as amended: exactly one malformed field gives false and one error per
\* malformed value of that field (one for a scalar field or an empty To, one
\* per malformed address of To or Cc), each naming the field or the address.
C3_OneErrorPerMalformedValue ==
    (op = "Config.Validate" /\ OneMalformedField(conf0)) =>
        /\ ~ok
        /\ Len(ret) = MalformedValues(conf0, TheMalformedField(conf0))
        /\ \A i \in 1..Len(ret) : Names(ret[i], TheMalformedField(conf0), conf0)

\* To alone is malformed, with two malformed addresses
C3_Witness ==
    /\ op = "Config.Validate"
    /\ OneMalformedField(conf0)
    /\ MalformedFields(conf0) = {"To"}
    /\ Len(BadAddrs(conf0.Mail.To)) = 2
    /\ Len(ret) = 2

\* C4: a mail block or a chat block with UseThisTime = false yields zero
\* errors whatever its other fields hold.
C4_DisabledBlockYieldsNothing ==
    /\ (op = "smtpConf.Validate" /\ ~conf0.Mail.UseThisTime) => ret = <<>>
    /\ (op = "SlackConf.Validate" /\ ~conf0.Slack.UseThisTime) => ret = <<>>

\* a disabled chat block that is garbage throughout
C4_Witness ==
    /\ op = "SlackConf.Validate"
    /\ ~conf0.Slack.UseThisTime
    /\ conf0.Slack.HookURL = "not a url"
    /\ conf0.Slack.Channel = "general"
    /\ conf0.Slack.AuthUser = ""

RequiredErrs(m) ==
    (IF m.SMTPAddr = "" THEN <<"smtpAddr must not be empty">> ELSE <<>>)
    \o (IF m.SMTPPort = "" THEN <<"smtpPort must not be empty">> ELSE <<>>)
    \o (IF m.To = <<>> THEN <<"To required at least one address">> ELSE <<>>)
    \o (IF m.From = "" THEN <<"From required at least one address">> ELSE <<>>)

RequiredMsgs ==
    {"smtpAddr must not be empty", "smtpPort must not be empty",
     "To required at least one address", "From required at least one address"}

\* C5: for an enabled mail block each required-field error is present iff
\* its own field is empty, at most once, and those that apply appear together
\* in the order smtpAddr, smtpPort, To, From; the sample block of the
\* specification yields no error.
C5_RequiredFieldsIndependent ==
    (op = "smtpConf.Validate" /\ conf0.Mail.UseThisTime) =>
        /\ Occurrences(ret, "smtpAddr must not be empty")
              = (IF conf0.Mail.SMTPAddr = "" THEN 1 ELSE 0)
        /\ Occurrences(ret, "smtpPort must not be empty")
              = (IF conf0.Mail.SMTPPort = "" THEN 1 ELSE 0)
        /\ Occurrences(ret, "To required at least one address")
              = (IF conf0.Mail.To = <<>> THEN 1 ELSE 0)
        /\ Occurrences(ret, "From required at least one address")
              = (IF conf0.Mail.From = "" THEN 1 ELSE 0)
        /\ SelectSeq(ret, LAMBDA m : m \in RequiredMsgs) = RequiredErrs(conf0.Mail)
        /\ ( /\ conf0.Mail.From = "a@b.com"
             /\ conf0.Mail.To = <<"c@d.com">>
             /\ conf0.Mail.Cc = <<>>
             /\ conf0.Mail.SMTPAddr = "smtp.example.com"
             /\ conf0.Mail.SMTPPort = "25" ) => ret = <<>>

\* all four required fields missing, all four reported
C5_Witness ==
    /\ op = "smtpConf.Validate"
    /\ conf0.Mail.UseThisTime
    /\ conf0.Mail.SMTPAddr = "" /\ conf0.Mail.SMTPPort = ""
    /\ conf0.Mail.To = <<>> /\ conf0.Mail.From = ""
    /\ Len(ret) = 4

\* index of the first empty string of l, Len(l) + 1 when there is none
FirstEmpty(l) ==
    IF HasEmptyEntry(l)
    THEN CHOOSE i \in 1..Len(l) : l[i] = "" /\ \A j \in 1..(i - 1) : l[j] # ""
    ELSE Len(l) + 1

CombinedList(m) == <<m.From>> \o m.To \o m.Cc

CheckedAddrs(m) == SubSeq(CombinedList(m), 1, FirstEmpty(CombinedList(m)) - 1)

EmailErrsOf(seq) ==
    SelectSeq(seq, LAMBDA m : HasPrefix(m, "Invalid email address. email: "))

\* C6: for an enabled mail block the email errors are, in list order, one
\* per malformed address of [From] + To + Cc standing before the first empty
\* string of that list, each naming its address, and none for an address at
\* or after it.
C6_EmailErrorsUpToFirstEmpty ==
    (op = "smtpConf.Validate" /\ conf0.Mail.UseThisTime) =>
        /\ Len(EmailErrsOf(ret)) = Len(BadAddrs(CheckedAddrs(conf0.Mail)))
        /\ \A i \in 1..Len(EmailErrsOf(ret)) :
              EmailErrsOf(ret)[i] = "Invalid email address. email: "
                                       \o BadAddrs(CheckedAddrs(conf0.Mail))[i]

\* a malformed address before the first empty string and one after it
C6_Witness ==
    /\ op = "smtpConf.Validate"
    /\ conf0.Mail.UseThisTime
    /\ conf0.Mail.From = "bad"
    /\ conf0.Mail.To = <<"", "bad">>
    /\ Len(EmailErrsOf(ret)) = 1

ChannelErrsOf(seq) == SelectSeq(seq, LAMBDA m : HasPrefix(m, "channel"))

\* C7: for an enabled chat block an empty Channel gives exactly the 'must
\* not be empty' error, a non-empty Channel that neither starts with '#' nor
\* is "${servername}" gives exactly one prefix error, any other Channel gives
\* none; the hookURL and authUser errors are present iff their field is empty.
C7_ChannelRule ==
    (op = "SlackConf.Validate" /\ conf0.Slack.UseThisTime) =>
        /\ conf0.Slack.Channel = "" =>
              ChannelErrsOf(ret) = <<"channel must not be empty">>
        /\ (conf0.Slack.Channel # "" /\ ~ChannelOk(conf0.Slack.Channel)) =>
              ChannelErrsOf(ret) =
                 <<"channel's prefix must be '#', channel: " \o conf0.Slack.Channel>>
        /\ ChannelOk(conf0.Slack.Channel) => ChannelErrsOf(ret) = <<>>
        /\ conf0.Slack.Channel \in {"#general", "${servername}"} =>
              ChannelErrsOf(ret) = <<>>
        /\ conf0.Slack.Channel = "general" => Len(ChannelErrsOf(ret)) = 1
        /\ Occurrences(ret, "hookURL must not be empty") > 0
              <=> conf0.Slack.HookURL = ""
        /\ Occurrences(ret, "authUser must not be empty") > 0
              <=> conf0.Slack.AuthUser = ""

\* the placeholder channel passes while hookURL and authUser are reported
C7_Witness ==
    /\ op = "SlackConf.Validate"
    /\ conf0.Slack.UseThisTime
    /\ conf0.Slack.Channel = "${servername}"
    /\ conf0.Slack.HookURL = ""
    /\ conf0.Slack.AuthUser = ""
    /\ Len(ret) = 2

\* C8: a validator called again on the unmodified Settings returns what its
\* previous call returned: the same errors in the same order and, for
\* Config.Validate, the same bool.
C8_Idempotent ==
    [][(calls >= 1 /\ calls' = calls + 1 /\ op' = op /\ conf = conf0)
          => (ret' = ret /\ ok' = ok)]_vars

\* Config.Validate called twice in a row on a Settings value with errors
C8_Witness ==
    /\ calls = 2
    /\ op = "Config.Validate"
    /\ ret # <<>>
    /\ log = ret \o ret

\* C9: no validator call changes any field of the Settings value.
C9_InputUnchanged == conf = conf0

\* Config.Validate has reported errors on an enabled mail block with addresses
C9_Witness ==
    /\ op = "Config.Validate"
    /\ ret # <<>>
    /\ conf0.Mail.UseThisTime
    /\ conf0.Mail.To # <<>>
    /\ conf0.Mail.From # conf0.Mail.To[1]

\* C10: after SetContainer calls the Container is the last argument,
\* IsContainer is true iff its id is non-empty (false before any call), every
\* other field is as before, and IsLocal is true iff Host is "localhost" or
\* "127.0.0.1".
C10_LastContainerWins ==
    /\ args = <<>> => ~IsContainer(conf.Default)
    /\ args # <<>> =>
          /\ conf.Default.Container = args[Len(args)]
          /\ IsContainer(conf.Default) <=> args[Len(args)].ContainerID # ""
    /\ [conf.Default EXCEPT !.Container = ZeroContainer] = conf0.Default
    /\ IsLocal(conf.Default) <=> conf0.Default.Host \in {"localhost", "127.0.0.1"}
    /\ conf.Default.Host = "" => ~IsLocal(conf.Default)

\* an attachment with an id overwritten by one without, on the local host
C10_Witness ==
    /\ Len(args) = 2
    /\ args[1].ContainerID # ""
    /\ args[2].ContainerID = ""
    /\ ~IsContainer(conf.Default)
    /\ IsLocal(conf.Default)

====
